---- MODULE Spec2Model ----
(***************************************************************************)
(* Model of like_playlist.py: the playlist identifier resolver, the       *)
(* credential manager, the playlist enumerator, the rating invoker and    *)
(* the driver (main).  The four functions are operators computed as the   *)
(* code computes them; main is a state machine with one action per step   *)
(* of the script.  The platform, the file system and the user are the     *)
(* environment: their answers are drawn from small sets.                  *)
(***************************************************************************)
EXTENDS Integers, Sequences, FiniteSets, TLC

VARIABLES
    max_retries,   \* like_video: the max_retries argument
    outcomes,      \* like_video: what the n-th videos().rate().execute() does
    like_result,   \* like_video: <<>> before the call, <<r>> after it
    url_parts,     \* extract_playlist_id: the pieces the argument is spelled from
    url_or_id,     \* extract_playlist_id: the argument (args.playlist in main)
    playlist_id,   \* extract_playlist_id: <<>> before the call, <<r>> after it
    chain,         \* get_video_ids_from_playlist: the pages the platform serves
    enum_result,   \* get_video_ids_from_playlist: <<>> before the call, <<r>> after it
    args,          \* main: the parsed options dry_run and yes
    credentials_exists, \* main: os.path.exists(args.credentials)
    token_file,    \* the token file: <<>> when it does not exist, else <<creds>>
    youtube,       \* main: <<>> (None) or <<creds>>, the handle built on creds
    video_ids,     \* main: the enumerated identifiers
    answer,        \* main: <<>> or <<a>>, what the user typed at the prompt
    i,             \* main: i of the rating loop
    succeeded,     \* main: tally
    failed,        \* main: tally
    summary,       \* main: <<>> or <<the printed summary>>
    rate_log,      \* the video ids like_video was called with, in order
    effects,       \* counts of the calls and file accesses the run made
    pc             \* position of the running script

vars == <<max_retries, outcomes, like_result, url_parts, url_or_id, playlist_id,
          chain, enum_result, args, credentials_exists, token_file, youtube,
          video_ids, answer, i, succeeded, failed, summary, rate_log,
          effects, pc>>

(***************************************************************************)
(* Bounds of the model.                                                    *)
(***************************************************************************)
MaxRetriesBound == 4

DefaultMaxRetries == 4

(***************************************************************************)
(* Optional values (Python None) are sequences of length 0 or 1.           *)
(***************************************************************************)
None == <<>>

Some(x) == <<x>>

\* the sequences of length n over S
SeqsOfLen(S, n) == [1..n -> S]

(***************************************************************************)
(* State of main that the function specifications leave untouched.         *)
(***************************************************************************)
mainVars ==
    <<args, credentials_exists, token_file, youtube, video_ids, answer, i,
      succeeded, failed, summary, rate_log, effects>>

NoEffects ==
    [auth_calls |-> 0, enum_calls |-> 0, like_calls |-> 0, rate_calls |-> 0,
     net_calls |-> 0, token_reads |-> 0, token_writes |-> 0]

MainIdle ==
    /\ args = [dry_run |-> FALSE, yes |-> FALSE]
    /\ credentials_exists = FALSE
    /\ token_file = None
    /\ youtube = None
    /\ video_ids = <<>>
    /\ answer = None
    /\ i = 0
    /\ succeeded = 0
    /\ failed = 0
    /\ summary = None
    /\ rate_log = <<>>
    /\ effects = NoEffects

(***************************************************************************)
(* extract_playlist_id.  Strings are sequences of one-character strings.   *)
(***************************************************************************)
UpperChars == <<"A", "B", "C", "D", "E", "F", "G", "H", "I", "J", "K", "L", "M">> \o
              <<"N", "O", "P", "Q", "R", "S", "T", "U", "V", "W", "X", "Y", "Z">>

LowerChars == <<"a", "b", "c", "d", "e", "f", "g", "h", "i", "j", "k", "l", "m">> \o
              <<"n", "o", "p", "q", "r", "s", "t", "u", "v", "w", "x", "y", "z">>

DigitChars == <<"0", "1", "2", "3", "4", "5", "6", "7", "8", "9">>

Range(f) == {f[x] : x \in DOMAIN f}

AlphaChars == Range(UpperChars) \cup Range(LowerChars)

\* urllib.parse.scheme_chars
SchemeChars == AlphaChars \cup Range(DigitChars) \cup {"+", "-", "."}

\* the character class [A-Za-z0-9_-]
IdChars == AlphaChars \cup Range(DigitChars) \cup {"_", "-"}

\* str.lower() of one character
LowerChar(c) ==
    IF \E n \in DOMAIN UpperChars : UpperChars[n] = c
    THEN LowerChars[CHOOSE n \in DOMAIN UpperChars : UpperChars[n] = c]
    ELSE c

Lower(str) == [n \in DOMAIN str |-> LowerChar(str[n])]

\* 1-based str.find(c) from position start: 0 when absent
FindFrom(str, C, start) ==
    IF \E n \in start..Len(str) : str[n] \in C
    THEN CHOOSE n \in start..Len(str) :
            str[n] \in C /\ \A m \in start..(n - 1) : str[m] \notin C
    ELSE 0

Find(str, c) == FindFrom(str, {c}, 1)

Before(str, n) == SubSeq(str, 1, n - 1)

After(str, n) == SubSeq(str, n + 1, Len(str))

\* str.split(sep): all the pieces
RECURSIVE Split(_, _)
Split(str, sep) ==
    LET n == Find(str, sep)
    IN  IF n = 0 THEN <<str>>
        ELSE <<Before(str, n)>> \o Split(After(str, n), sep)

\* the scheme step of urlsplit: <<scheme, rest>>
SplitScheme(url) ==
    LET n == Find(url, ":")
    IN  IF /\ n > 1
           /\ url[1] \in AlphaChars
           /\ \A m \in 1..(n - 1) : url[m] \in SchemeChars
        THEN <<Lower(Before(url, n)), After(url, n)>>
        ELSE <<(<<>>), url>>

\* the netloc step of urlsplit: <<netloc, rest>>
SplitNetloc(url) ==
    IF Len(url) >= 2 /\ url[1] = "/" /\ url[2] = "/"
    THEN LET n == FindFrom(url, {"/", "?", "#"}, 3)
         IN  IF n = 0 THEN <<SubSeq(url, 3, Len(url)), (<<>>)>>
             ELSE <<SubSeq(url, 3, n - 1), SubSeq(url, n, Len(url))>>
    ELSE <<(<<>>), url>>

\* url.split(c, 1) when c occurs: <<before, after>>, else <<url, "">>
SplitOnce(url, c) ==
    LET n == Find(url, c)
    IN  IF n = 0 THEN <<url, (<<>>)>> ELSE <<Before(url, n), After(url, n)>>

urlparse(url) ==
    LET s1 == SplitScheme(url)
        s2 == SplitNetloc(s1[2])
        s3 == SplitOnce(s2[2], "#")
        s4 == SplitOnce(s3[1], "?")
    IN  [scheme |-> s1[1], netloc |-> s2[1], path |-> s4[1],
         query |-> s4[2], fragment |-> s3[2]]

\* The %XX escapes the modelled inputs use (two hex digits -> character).
HexPairs == {<<"4", "1">>, <<"6", "9">>, <<"2", "6">>}

HexChar(pair) ==
    CASE pair = <<"4", "1">> -> "A"
      [] pair = <<"6", "9">> -> "i"
      [] pair = <<"2", "6">> -> "&"

\* urllib.parse.unquote: %XX with two hex digits is decoded, any other
\* character (a lone % included) is kept.
RECURSIVE unquote(_)
unquote(str) ==
    IF str = <<>> THEN <<>>
    ELSE IF str[1] = "%" /\ Len(str) >= 3 /\ <<str[2], str[3]>> \in HexPairs
         THEN <<HexChar(<<str[2], str[3]>>)>> \o unquote(SubSeq(str, 4, Len(str)))
         ELSE <<str[1]>> \o unquote(Tail(str))

\* str.replace('+', ' ')
PlusToSpace(str) == [n \in DOMAIN str |-> IF str[n] = "+" THEN " " ELSE str[n]]

\* parse_qsl(qs, keep_blank_values=False, strict_parsing=False): the
\* sequence of <<name, value>> pairs
RECURSIVE ParsePairs(_)
ParsePairs(pairs) ==
    IF pairs = <<>> THEN <<>>
    ELSE LET name_value == Head(pairs)
             n == Find(name_value, "=")
         IN  IF n = 0 \/ After(name_value, n) = <<>>
             THEN ParsePairs(Tail(pairs))
             ELSE <<<<unquote(PlusToSpace(Before(name_value, n))),
                      unquote(PlusToSpace(After(name_value, n)))>>>>
                  \o ParsePairs(Tail(pairs))

parse_qsl(query) == IF query = <<>> THEN <<>> ELSE ParsePairs(Split(query, "&"))

\* "name in qs" and qs[name][0] of the dictionary parse_qs builds
QsHas(qsl, name) == \E n \in DOMAIN qsl : qsl[n][1] = name

QsFirstMutant(qsl, name) ==
    LET idx == {n \in DOMAIN qsl : qsl[n][1] = name}
    IN  qsl[CHOOSE n \in idx : \A m \in idx : m <= n][2]

QsFirst(qsl, name) ==
    LET idx == {n \in DOMAIN qsl : qsl[n][1] = name}
    IN  qsl[CHOOSE n \in idx : \A m \in idx : n <= m][2]

S_list == <<"l", "i", "s", "t">>

S_http == <<"h", "t", "t", "p">>

S_https == <<"h", "t", "t", "p", "s">>

PlaylistPrefixes == {<<"P", "L">>, <<"U", "U">>, <<"F", "L">>, <<"O", "L">>, <<"R", "D">>}

\* re.match(r'^(PL|UU|FL|OL|RD)[A-Za-z0-9_-]+$', url_or_id)
LooksLikePlaylistId(str) ==
    /\ Len(str) >= 3
    /\ SubSeq(str, 1, 2) \in PlaylistPrefixes
    /\ \A n \in 3..Len(str) : str[n] \in IdChars

Raise(what) == [raised |-> TRUE, error |-> what, value |-> <<>>]

Return(value) == [raised |-> FALSE, error |-> "", value |-> value]

extract_playlist_id(str) ==
    IF str = <<>> THEN Raise("ValueError")
    ELSE LET parsed == urlparse(str)
             qs == parse_qsl(parsed.query)
         IN  IF parsed.scheme \in {S_http, S_https} /\ QsHas(qs, S_list)
             THEN Return(QsFirst(qs, S_list))
             ELSE IF LooksLikePlaylistId(str)
                  THEN Return(str)
                  ELSE Return(str)

(***************************************************************************)
(* Inputs of extract_playlist_id: a prefix (a bare string or the part of  *)
(* a URL before the query), up to MaxParams query parameters and an       *)
(* optional fragment.  Each piece carries what it stands for, written by  *)
(* hand: the scheme of the prefix, the decoded form of a name or value.   *)
(***************************************************************************)
MaxParams == 2

Prefixes == {
    [chars |-> <<>>, scheme |-> "none", frag |-> FALSE],
    [chars |-> <<"P", "L", "a">>, scheme |-> "none", frag |-> FALSE],
    [chars |-> <<"U", "U", "_", "-", "9">>, scheme |-> "none", frag |-> FALSE],
    [chars |-> <<"P", "L">>, scheme |-> "none", frag |-> FALSE],
    [chars |-> <<"y", "/", "p">>, scheme |-> "none", frag |-> FALSE],
    [chars |-> <<"h", "t", "t", "p", "s", ":", "/", "/", "y", "/", "p">>, scheme |-> "https", frag |-> FALSE],
    [chars |-> <<"h", "t", "t", "p", ":", "/", "/", "y", "/", "p">>, scheme |-> "http", frag |-> FALSE],
    [chars |-> <<"H", "T", "T", "P", "S", ":", "/", "/", "y", "/", "p">>, scheme |-> "https", frag |-> FALSE],
    [chars |-> <<"f", "t", "p", ":", "/", "/", "y", "/", "p">>, scheme |-> "ftp", frag |-> FALSE],
    [chars |-> <<"h", "t", "t", "p", "s", ":", "/", "/", "y", "/", "#", "f">>, scheme |-> "https", frag |-> TRUE]}

ParamNames == {
    [raw |-> <<"l", "i", "s", "t">>, decoded |-> <<"l", "i", "s", "t">>],
    [raw |-> <<"v">>, decoded |-> <<"v">>],
    [raw |-> <<"l", "%", "6", "9", "s", "t">>, decoded |-> <<"l", "i", "s", "t">>]}

ParamValues == {
    [raw |-> <<>>, decoded |-> <<>>],
    [raw |-> <<"P", "L", "a">>, decoded |-> <<"P", "L", "a">>],
    [raw |-> <<"a", "+", "b">>, decoded |-> <<"a", " ", "b">>],
    [raw |-> <<"P", "L", "%", "4", "1">>, decoded |-> <<"P", "L", "A">>]}

\* name=value, or a bare name without "="
Params ==
    [name : ParamNames, eq : {TRUE}, value : ParamValues]
        \cup [name : ParamNames, eq : {FALSE}, value : {[raw |-> <<>>, decoded |-> <<>>]}]

Fragments == {<<>>, <<"#", "?", "l", "i", "s", "t", "=", "P", "L", "a">>}

ParamSeqs == UNION {SeqsOfLen(Params, n) : n \in 0..MaxParams}

NoParts ==
    [prefix |-> [chars |-> <<>>, scheme |-> "none", frag |-> FALSE],
     params |-> <<>>, fragment |-> <<>>]

UrlParts == [prefix : Prefixes, params : ParamSeqs, fragment : Fragments]

ParamChars(prm) ==
    prm.name.raw \o (IF prm.eq THEN <<"=">> \o prm.value.raw ELSE <<>>)

RECURSIVE JoinParams(_)
JoinParams(params) ==
    IF params = <<>> THEN <<>>
    ELSE ParamChars(Head(params))
         \o (IF Tail(params) = <<>> THEN <<>> ELSE <<"&">> \o JoinParams(Tail(params)))

\* The string the parts spell.
Spell(parts) ==
    parts.prefix.chars
        \o (IF parts.params = <<>> THEN <<>> ELSE <<"?">> \o JoinParams(parts.params))
        \o parts.fragment

InitResolve ==
    /\ url_parts \in UrlParts
    /\ url_or_id = Spell(url_parts)
    /\ playlist_id = None
    /\ pc = "extract_playlist_id"
    /\ MainIdle
    /\ max_retries = 0
    /\ outcomes = <<>>
    /\ like_result = None
    /\ chain = <<>>
    /\ enum_result = None

CallExtractPlaylistId ==
    /\ pc = "extract_playlist_id"
    /\ playlist_id' = Some(extract_playlist_id(url_or_id))
    /\ pc' = "returned"
    /\ UNCHANGED <<url_parts, url_or_id, max_retries, outcomes, like_result,
                   chain, enum_result, mainVars>>

NextResolve == CallExtractPlaylistId

SpecResolve == InitResolve /\ [][NextResolve]_vars

(***************************************************************************)
(* Claims about extract_playlist_id (checked under SpecResolve).           *)
(***************************************************************************)
Resolved == playlist_id # None

Resolution == playlist_id[1]

\* The argument is an http(s) URL whose query is not swallowed by a fragment.
HttpUrl ==
    url_parts.prefix.scheme \in {"http", "https"} /\ ~url_parts.prefix.frag

\* The parameters parse_qs keeps under the key "list": decoded name "list",
\* an "=" and a value that is not blank.
ListParams ==
    {n \in DOMAIN url_parts.params :
        /\ url_parts.params[n].eq
        /\ url_parts.params[n].value.raw # <<>>
        /\ url_parts.params[n].name.decoded = S_list}

FirstListParam ==
    url_parts.params[CHOOSE n \in ListParams : \A m \in ListParams : n <= m]

\* The string starts its query with a literal list=XYZ, XYZ not empty.
LiteralListFirst ==
    /\ url_parts.params # <<>>
    /\ url_parts.params[1].name.raw = S_list
    /\ url_parts.params[1].eq
    /\ url_parts.params[1].value.raw # <<>>

Credentials ==
    [token : {None, Some("t0")}, expired : BOOLEAN, refresh_token : {None, Some("r0")}]

TokenFiles == {None} \cup {Some(c) : c \in Credentials}

\* Credentials.valid: a token that has not expired
Valid(creds) == creds.token # None /\ ~creds.expired

\* what creds.refresh(Request()) leaves in creds when it succeeds
Refreshed(creds) ==
    [token |-> Some("t_refreshed"), expired |-> FALSE, refresh_token |-> creds.refresh_token]

\* what flow.run_local_server(port=0) returns
Authorized == [token |-> Some("t_new"), expired |-> FALSE, refresh_token |-> Some("r_new")]

\* creds = None; if os.path.exists(token_file): creds = Credentials.from_authorized_user_file(...)
\* (a token file that does not exist is None)
LoadCreds(file) == IF file # None THEN file ELSE None

\* creds and creds.expired and creds.refresh_token
NeedsRefresh(creds) ==
    creds # None /\ creds[1].expired /\ creds[1].refresh_token # None

\* the refresh block: creds after it
AfterRefresh(creds, refresh_ok) ==
    IF NeedsRefresh(creds)
    THEN IF refresh_ok THEN Some(Refreshed(creds[1])) ELSE None
    ELSE creds

AuthResult(raised, creds, file, ran) ==
    [raised |-> raised, youtube |-> creds, token_file |-> file, steps |-> ran]

\* steps: which of "read", "refresh", "flow", "write", "build" were done
get_authenticated_service(file, refresh_ok, flow_ok) ==
    LET creds0 == LoadCreds(file)
        read == IF file # None THEN {"read"} ELSE {}
    IN  IF creds0 # None /\ Valid(creds0[1])
        THEN AuthResult(FALSE, creds0, file, read \cup {"build"})
        ELSE LET creds1 == AfterRefresh(creds0, refresh_ok)
                 tried == IF NeedsRefresh(creds0) THEN {"refresh"} ELSE {}
             IN  IF creds1 = None
                 THEN IF flow_ok
                      THEN AuthResult(FALSE, Some(Authorized), Some(Authorized),
                                      read \cup tried \cup {"flow", "write", "build"})
                      ELSE AuthResult(TRUE, None, file, read \cup tried \cup {"flow"})
                 ELSE AuthResult(FALSE, creds1, creds1,
                                 read \cup tried \cup {"write", "build"})

(***************************************************************************)
(* get_video_ids_from_playlist.  The platform is a chain of at most        *)
(* MaxPages pages holding at most MaxItems items in all; a page is the    *)
(* response to the request carrying its token (the first request carries  *)
(* none).  An item is its contentDetails.get("videoId"): None, or a       *)
(* string that may be empty.                                               *)
(***************************************************************************)
MaxPages == 3

MaxItems == 4

VideoIds == {"v1", "v2"}

PageTokens == <<"A", "B", "C", "D", "E", "F">>

Items == {None, Some("")} \cup {Some(v) : v \in VideoIds}

\* the items of a whole playlist: at most maxi of them
ItemSeqs(maxi) == UNION {SeqsOfLen(Items, n) : n \in 0..maxi}

\* where a playlist of len items is cut into n pages: cuts[j] items lie on
\* the pages up to the j-th
PageCuts(n, len) ==
    {cuts \in [1..n -> 0..len] :
        /\ cuts[n] = len
        /\ \A j \in 1..(n - 1) : cuts[j] <= cuts[j + 1]}

ItemsOfPage(flat, cuts, j) ==
    SubSeq(flat, (IF j = 1 THEN 0 ELSE cuts[j - 1]) + 1, cuts[j])

\* The token of the j-th page of a chain, and the cursor it returns.
TokenOf(j) == IF j = 1 THEN None ELSE Some(PageTokens[j - 1])

Page(j, items, last) ==
    [error |-> "none", token |-> TokenOf(j), items |-> items,
     nextPageToken |-> IF last THEN None ELSE TokenOf(j + 1)]

FailingPage(j, kind) ==
    [error |-> kind, token |-> TokenOf(j), items |-> <<>>, nextPageToken |-> None]

FetchOutcomes == {"none", "HttpError", "Exception"}

\* The chain of n pages holding the items flat, cut at cuts; with fail
\* other than "none" the n-th fetch fails instead of answering.
MakeChain(n, flat, cuts, fail) ==
    [j \in 1..n |->
        IF j = n /\ fail # "none" THEN FailingPage(j, fail)
        ELSE Page(j, ItemsOfPage(flat, cuts, j), j = n)]

\* cuts that leave the failing page empty
CutsFor(n, len, fail) ==
    {cuts \in PageCuts(n, len) : fail # "none" => (n = 1 \/ cuts[n - 1] = len)}

\* the playlists whose n-th fetch has outcome fail
FlatFor(n, maxi, fail) ==
    IF n = 1 /\ fail # "none" THEN {<<>>} ELSE ItemSeqs(maxi)

PageChainsOf(maxp, maxi) ==
    UNION {UNION {UNION {{MakeChain(n, flat, cuts, fail) :
                                cuts \in CutsFor(n, Len(flat), fail)} :
                         flat \in FlatFor(n, maxi, fail)} :
                  fail \in FetchOutcomes} :
           n \in 1..maxp}

\* request.execute(): the page whose token the request carries
execute(ch, request) ==
    ch[CHOOSE j \in DOMAIN ch : ch[j].token = request.pageToken]

\* playlistItems().list(...): the first request
list_first == Some([pageToken |-> None])

\* playlistItems().list_next(request, resp): None when resp has no cursor
list_next(request, resp) ==
    IF resp.nextPageToken = None THEN None
    ELSE Some([pageToken |-> resp.nextPageToken])

RECURSIVE CollectIdsMutant(_, _)
CollectIdsMutant(ids, items) ==
    IF items = <<>> THEN ids
    ELSE LET vid == Head(items)
         IN  CollectIdsMutant(IF vid # None THEN Append(ids, vid[1]) ELSE ids,
                              Tail(items))

\* the for loop over resp.get("items", [])
RECURSIVE CollectIds(_, _)
CollectIds(ids, items) ==
    IF items = <<>> THEN ids
    ELSE LET vid == Head(items)
         IN  CollectIds(IF vid # None /\ vid[1] # "" THEN Append(ids, vid[1]) ELSE ids,
                        Tail(items))

\* the while loop; fetched logs the token of every executed request
RECURSIVE ListLoop(_, _, _, _)
ListLoop(ch, request, ids, fetched) ==
    IF request = None
    THEN [raised |-> FALSE, error |-> "none", ids |-> ids, fetched |-> fetched]
    ELSE LET resp == execute(ch, request[1])
             log == Append(fetched, request[1].pageToken)
         IN  IF resp.error # "none"
             THEN [raised |-> TRUE, error |-> resp.error, ids |-> <<>>, fetched |-> log]
             ELSE ListLoop(ch, list_next(request[1], resp),
                           CollectIds(ids, resp.items), log)

get_video_ids_from_playlist(ch) == ListLoop(ch, list_first, <<>>, <<>>)

(***************************************************************************)
(* like_video                                                              *)
(***************************************************************************)
Statuses == {403, 429, 500, 503, 404}

TransientStatuses == {403, 429, 500, 503}

Ok == [kind |-> "ok", status_code |-> None, resp |-> None]

OtherException == [kind |-> "Exception", status_code |-> None, resp |-> None]

HttpError(status_code, resp) ==
    [kind |-> "HttpError", status_code |-> status_code, resp |-> resp]

\* HttpError objects: with the status_code property, without it (older
\* client library, status only on e.resp), and with neither.
HttpErrors ==
    {HttpError(Some(s), Some(s)) : s \in Statuses}
        \cup {HttpError(None, Some(s)) : s \in Statuses}
        \cup {HttpError(None, None)}

RateOutcomes == {Ok, OtherException} \cup HttpErrors

\* Python truthiness of an optional integer.
Truthy(x) == x # None /\ x[1] # 0

\* status = getattr(e, 'status_code', None) or (getattr(e, 'resp', None) and e.resp.status)
ErrorStatus(e) ==
    IF Truthy(e.status_code) THEN e.status_code ELSE e.resp

IsTransientMutant(status) ==
    Truthy(status) /\ status[1] \in (TransientStatuses \cup {404})

\* status and int(status) in (403, 429, 500, 503)
IsTransient(status) ==
    Truthy(status) /\ status[1] \in TransientStatuses

ShouldRetryMutant(status, attempt, maxr) ==
    IsTransient(status)

\* the condition of the retry branch
ShouldRetry(status, attempt, maxr) ==
    IsTransient(status) /\ attempt < maxr

BackoffSleepMutant(attempt) == 2 * attempt

\* sleep = 2 ** attempt
BackoffSleep(attempt) == 2 ^ attempt

AttemptRangeMutant(maxr) == [j \in 1..(maxr + 1) |-> j - 1]

\* range(1, max_retries + 1)
AttemptRange(maxr) == [j \in 1..maxr |-> j]

\* The n-th execute() of the stubbed rate request; a stub asked for more
\* calls than it was given outcomes raises.
RateOutcome(outs, n) ==
    IF n \in DOMAIN outs THEN outs[n] ELSE OtherException

LikeReturn(ret, calls, sleeps) ==
    [ret |-> ret, raised |-> FALSE, calls |-> calls, sleeps |-> sleeps]

RECURSIVE LikeLoop(_, _, _, _, _)
LikeLoop(outs, attempts, maxr, calls, sleeps) ==
    IF attempts = <<>>
    THEN LikeReturn(FALSE, calls, sleeps)
    ELSE LET attempt == Head(attempts)
             o == RateOutcome(outs, calls + 1)
         IN  CASE o.kind = "ok" -> LikeReturn(TRUE, calls + 1, sleeps)
               [] o.kind = "HttpError" ->
                    IF ShouldRetry(ErrorStatus(o), attempt, maxr)
                    THEN LikeLoop(outs, Tail(attempts), maxr, calls + 1,
                                  Append(sleeps, BackoffSleep(attempt)))
                    ELSE LikeReturn(FALSE, calls + 1, sleeps)
               [] OTHER -> LikeReturn(FALSE, calls + 1, sleeps)

like_video(outs, maxr) == LikeLoop(outs, AttemptRange(maxr), maxr, 0, <<>>)

InitLike ==
    /\ max_retries \in 0..MaxRetriesBound
    /\ outcomes \in SeqsOfLen(RateOutcomes, max_retries)
    /\ like_result = None
    /\ pc = "like_video"
    /\ MainIdle
    /\ url_parts = NoParts
    /\ url_or_id = <<>>
    /\ playlist_id = None
    /\ chain = <<>>
    /\ enum_result = None

CallLikeVideo ==
    /\ pc = "like_video"
    /\ like_result' = Some(like_video(outcomes, max_retries))
    /\ pc' = "returned"
    /\ UNCHANGED <<max_retries, outcomes, url_parts, url_or_id, playlist_id,
                   chain, enum_result, mainVars>>

NextLike == CallLikeVideo

SpecLike == InitLike /\ [][NextLike]_vars

(***************************************************************************)
(* Claims about like_video (checked under SpecLike).                       *)
(***************************************************************************)
\* The HTTP status of the response an outcome carries, None when it has none.
HttpStatusOf(o) == o.resp

FailsTransient(o) ==
    /\ o.kind = "HttpError"
    /\ HttpStatusOf(o) # None
    /\ HttpStatusOf(o)[1] \in {403, 429, 500, 503}

FailsPermanent(o) ==
    /\ o.kind = "HttpError"
    /\ \/ HttpStatusOf(o) = None
       \/ HttpStatusOf(o)[1] \notin {403, 429, 500, 503}

Returned == like_result # None

Result == like_result[1]

\* C1: when the first k rate calls (0 <= k < max_retries) fail with a
\* transient status (403, 429, 500, 503) and call k+1 succeeds, like_video
\* returns True after exactly k+1 rate calls and has slept 2^1, ..., 2^k
\* seconds, in that order.
ThmC1 ==
    Returned =>
        \A k \in 0..(max_retries - 1) :
            (/\ \A j \in 1..k : FailsTransient(outcomes[j])
             /\ outcomes[k + 1].kind = "ok")
            => /\ Result.ret = TRUE
               /\ Result.calls = k + 1
               /\ Result.sleeps = [j \in 1..k |-> 2 ^ j]

\* [429, 429, 429, success] with max_retries = 4: success on the 4th call
\* after sleeping 2, 4 and 8 seconds.
WitC1 ==
    /\ Returned
    /\ max_retries = 4
    /\ \A j \in 1..3 : FailsTransient(outcomes[j])
    /\ outcomes[4].kind = "ok"
    /\ Result.ret = TRUE
    /\ Result.sleeps = <<2, 4, 8>>

\* C2: when a rate call fails with an HttpError whose status is not one of
\* 403, 429, 500, 503 (every earlier call having failed transiently),
\* like_video returns False right after that call: no further rate call
\* and no sleep after it.
ThmC2 ==
    Returned =>
        \A n \in 1..max_retries :
            (/\ \A j \in 1..(n - 1) : FailsTransient(outcomes[j])
             /\ FailsPermanent(outcomes[n]))
            => /\ Result.ret = FALSE
               /\ Result.calls = n
               /\ Len(Result.sleeps) = n - 1

\* A 404 on the first call, with attempts to spare: one call, no sleep.
WitC2 ==
    /\ Returned
    /\ max_retries >= 2
    /\ outcomes[1].kind = "HttpError"
    /\ HttpStatusOf(outcomes[1]) = Some(404)
    /\ Result.ret = FALSE
    /\ Result.calls = 1
    /\ Result.sleeps = <<>>

AllTransient == \A j \in 1..Len(outcomes) : FailsTransient(outcomes[j])

\* C9 as stated: with max_retries = 4 and four transient failures the
\* sleeps are 2, 4, 8, 16 seconds, one after each of the attempts 1..4.
OrigC9 ==
    (Returned /\ max_retries = DefaultMaxRetries /\ AllTransient)
        => Result.sleeps = <<2, 4, 8, 16>>

\* C9 amended: with max_retries = 4 and four transient failures the sleeps
\* are 2, 4, 8 seconds, one after each of the attempts 1..3; the 4th
\* attempt is followed by no sleep and like_video returns False.  The
\* schedule does not depend on which transient statuses were seen.
ThmC9 ==
    (Returned /\ max_retries = DefaultMaxRetries /\ AllTransient)
        => /\ Result.sleeps = <<2, 4, 8>>
           /\ Result.calls = 4
           /\ Result.ret = FALSE

WitC9 ==
    /\ Returned
    /\ max_retries = DefaultMaxRetries
    /\ AllTransient
    /\ Result.calls = 4
    /\ {HttpStatusOf(outcomes[j])[1] : j \in 1..4} = {403, 429, 500, 503}

\* C10: for every sequence of rate-call outcomes and every max_retries,
\* like_video returns (the call is always enabled and yields a result),
\* does not raise, returns a boolean, makes at most max_retries rate
\* calls, returns True only if its last rate call succeeded, and returns
\* False after max_retries transient failures.
ThmC10 ==
    /\ pc = "like_video" => ENABLED CallLikeVideo
    /\ Returned =>
        /\ Result.raised = FALSE
        /\ Result.ret \in BOOLEAN
        /\ Result.calls <= max_retries
        /\ Result.ret => (Result.calls >= 1 /\ outcomes[Result.calls].kind = "ok")
        /\ AllTransient => (Result.ret = FALSE /\ Result.calls = max_retries)

\* All attempts used up on transient failures.
WitC10 ==
    /\ Returned
    /\ max_retries = 3
    /\ AllTransient
    /\ Result.ret = FALSE
    /\ Result.calls = 3

InitEnum ==
    /\ \E n \in 1..MaxPages, fail \in FetchOutcomes :
        \E flat \in FlatFor(n, MaxItems, fail) :
            \E cuts \in CutsFor(n, Len(flat), fail) :
                chain = MakeChain(n, flat, cuts, fail)
    /\ enum_result = None
    /\ pc = "get_video_ids_from_playlist"
    /\ MainIdle
    /\ max_retries = 0
    /\ outcomes = <<>>
    /\ like_result = None
    /\ url_parts = NoParts
    /\ url_or_id = <<>>
    /\ playlist_id = None

CallGetVideoIds ==
    /\ pc = "get_video_ids_from_playlist"
    /\ enum_result' = Some(get_video_ids_from_playlist(chain))
    /\ pc' = "returned"
    /\ UNCHANGED <<chain, max_retries, outcomes, like_result,
                   url_parts, url_or_id, playlist_id, mainVars>>

NextEnum == CallGetVideoIds

SpecEnum == InitEnum /\ [][NextEnum]_vars

(***************************************************************************)
(* Claims about get_video_ids_from_playlist (checked under SpecEnum).      *)
(***************************************************************************)
Enumerated == enum_result # None

Enumeration == enum_result[1]

AllPagesAnswer == \A j \in DOMAIN chain : chain[j].error = "none"

\* An item has a video identifier when videoId is present and not empty.
Identified(item) == item # None /\ item[1] # ""

IdsOfPage(page) ==
    LET kept == SelectSeq(page.items, Identified)
    IN  [n \in DOMAIN kept |-> kept[n][1]]

RECURSIVE Concatenation(_)
Concatenation(pages) ==
    IF pages = <<>> THEN <<>>
    ELSE Concatenation(SubSeq(pages, 1, Len(pages) - 1)) \o IdsOfPage(pages[Len(pages)])

\* C3: for a finite chain of pages, every page is fetched exactly once, in
\* cursor order, and the result is the concatenation, in page order and
\* in-page order, of the video identifiers of the items, items without a
\* video identifier skipped; pages of N identified items each give
\* (number of pages) * N entries.
ThmC3 ==
    (Enumerated /\ AllPagesAnswer) =>
        /\ Enumeration.raised = FALSE
        /\ Enumeration.fetched = [j \in DOMAIN chain |-> chain[j].token]
        /\ Enumeration.ids = Concatenation(chain)
        /\ \A N \in 0..MaxItems :
              (\A j \in DOMAIN chain : Len(IdsOfPage(chain[j])) = N)
                  => Len(Enumeration.ids) = Len(chain) * N

\* Three pages (cursor A, then B, then none), with items that have no
\* identifier skipped.
WitC3 ==
    /\ Enumerated
    /\ Len(chain) = 3
    /\ AllPagesAnswer
    /\ chain[1].items = <<None, Some("v2")>>
    /\ chain[2].items = <<Some("v1")>>
    /\ chain[3].items = <<Some("")>>
    /\ Enumeration.ids = <<"v2", "v1">>
    /\ Enumeration.fetched = <<None, Some("A"), Some("B")>>

(***************************************************************************)
(* main                                                                    *)
(***************************************************************************)
MainMaxPages == 2

MainMaxItems == 2

\* What get_video_ids_from_playlist can return or raise in a run of main.
MainEnumResults ==
    {get_video_ids_from_playlist(ch) : ch \in PageChainsOf(MainMaxPages, MainMaxItems)}

\* What like_video(youtube, vid) can return: max_retries is the default.
DefaultLikeResults ==
    {like_video(outs, DefaultMaxRetries) :
        outs \in SeqsOfLen(RateOutcomes, DefaultMaxRetries)}

\* The playlist arguments of the modelled runs: the empty string, a bare
\* identifier and a URL with a list parameter.
MainPlaylists ==
    {NoParts,
     [prefix |-> [chars |-> <<"P", "L", "a">>, scheme |-> "none", frag |-> FALSE],
      params |-> <<>>, fragment |-> <<>>],
     [prefix |-> [chars |-> <<"h", "t", "t", "p", "s", ":", "/", "/", "y", "/", "p">>, scheme |-> "https", frag |-> FALSE],
      params |-> <<[name |-> [raw |-> S_list, decoded |-> S_list], eq |-> TRUE,
                    value |-> [raw |-> <<"P", "L", "a">>, decoded |-> <<"P", "L", "a">>]]>>,
      fragment |-> <<>>]}

\* What the user may type at the prompt; is_y says whether it is the
\* letter y (in either case, blanks around it aside).
Answers == {
    [chars |-> <<"y">>, is_y |-> TRUE],
    [chars |-> <<"Y">>, is_y |-> TRUE],
    [chars |-> <<" ", "y", " ">>, is_y |-> TRUE],
    [chars |-> <<"n">>, is_y |-> FALSE],
    [chars |-> <<>>, is_y |-> FALSE],
    [chars |-> <<"y", "e", "s">>, is_y |-> FALSE]}

Whitespace == {" ", "\t", "\n"}

\* str.strip()
Strip(str) ==
    LET keep == {n \in DOMAIN str : str[n] \notin Whitespace}
    IN  IF keep = {} THEN <<>>
        ELSE SubSeq(str, CHOOSE n \in keep : \A m \in keep : n <= m,
                         CHOOSE n \in keep : \A m \in keep : m <= n)

AcceptsMutant(ans) == Lower(Strip(ans)) # <<"n">>

\* ans = input(...).strip().lower(); the run goes on unless ans != "y"
Accepts(ans) == Lower(Strip(ans)) = <<"y">>

NeedsServiceMutant(a) == TRUE

\* if not args.dry_run: the branch that builds the client handle
NeedsService(a) == ~a.dry_run

TallyMutant(ok, succ, fail) == IF ok THEN <<succ + 1, fail>> ELSE <<succ, fail>>

\* if ok: succeeded += 1 else: failed += 1
Tally(ok, succ, fail) == IF ok THEN <<succ + 1, fail>> ELSE <<succ, fail + 1>>

Count(b) == IF b THEN 1 ELSE 0

funVars == <<max_retries, outcomes, url_parts, url_or_id, chain>>

InitMain ==
    /\ url_parts \in MainPlaylists
    /\ url_or_id = Spell(url_parts)
    /\ playlist_id = None
    /\ args \in [dry_run : BOOLEAN, yes : BOOLEAN]
    /\ credentials_exists \in BOOLEAN
    /\ token_file \in TokenFiles
    /\ youtube = None
    /\ video_ids = <<>>
    /\ answer = None
    /\ i = 0
    /\ succeeded = 0
    /\ failed = 0
    /\ summary = None
    /\ rate_log = <<>>
    /\ effects = NoEffects
    /\ max_retries = DefaultMaxRetries
    /\ outcomes = <<>>
    /\ like_result = None
    /\ chain = <<>>
    /\ enum_result = None
    /\ pc = "main"

\* playlist_id = extract_playlist_id(args.playlist)
MainResolve ==
    /\ pc = "main"
    /\ LET r == extract_playlist_id(url_or_id)
       IN  /\ playlist_id' = Some(r)
           /\ pc' = IF r.raised THEN "crashed" ELSE "credentials"
    /\ UNCHANGED <<funVars, like_result, enum_result, mainVars>>

\* --dry-run: youtube = None
MainDryRun ==
    /\ pc = "credentials"
    /\ ~NeedsService(args)
    /\ youtube' = None
    /\ pc' = "gather"
    /\ UNCHANGED <<funVars, like_result, enum_result, playlist_id, args,
                   credentials_exists, token_file, video_ids, answer, i,
                   succeeded, failed, summary, rate_log, effects>>

\* the client-secrets file is missing: return
MainMissingSecrets ==
    /\ pc = "credentials"
    /\ NeedsService(args)
    /\ ~credentials_exists
    /\ pc' = "done"
    /\ UNCHANGED <<funVars, like_result, enum_result, playlist_id, mainVars>>

\* youtube = get_authenticated_service(args.credentials, args.token)
MainAuthenticate ==
    /\ pc = "credentials"
    /\ NeedsService(args)
    /\ credentials_exists
    /\ \E refresh_ok \in BOOLEAN, flow_ok \in BOOLEAN :
        LET r == get_authenticated_service(token_file, refresh_ok, flow_ok)
        IN  /\ youtube' = r.youtube
            /\ token_file' = r.token_file
            /\ effects' = [effects EXCEPT
                    !.auth_calls = @ + 1,
                    !.token_reads = @ + Count("read" \in r.steps),
                    !.token_writes = @ + Count("write" \in r.steps),
                    !.net_calls = @ + Count("refresh" \in r.steps)
                                    + Count("flow" \in r.steps)]
            /\ pc' = IF r.raised THEN "crashed" ELSE "gather"
    /\ UNCHANGED <<funVars, like_result, enum_result, playlist_id, args,
                   credentials_exists, video_ids, answer, i, succeeded, failed,
                   summary, rate_log>>

\* no client handle (dry run): nothing is enumerated, return
MainGatherDryRun ==
    /\ pc = "gather"
    /\ youtube = None
    /\ pc' = "done"
    /\ UNCHANGED <<funVars, like_result, enum_result, playlist_id, mainVars>>

\* video_ids = get_video_ids_from_playlist(youtube, playlist_id), the
\* except HttpError clause and the "No videos found" return
MainGather ==
    /\ pc = "gather"
    /\ youtube # None
    /\ \E r \in MainEnumResults :
        /\ enum_result' = Some(r)
        /\ effects' = [effects EXCEPT !.enum_calls = @ + 1,
                                      !.net_calls = @ + Len(r.fetched)]
        /\ IF r.raised
           THEN /\ video_ids' = <<>>
                /\ pc' = IF r.error = "HttpError" THEN "done" ELSE "crashed"
           ELSE /\ video_ids' = r.ids
                /\ pc' = IF r.ids = <<>> THEN "done" ELSE "confirm"
    /\ UNCHANGED <<funVars, like_result, playlist_id, args, credentials_exists,
                   token_file, youtube, answer, i, succeeded, failed, summary,
                   rate_log>>

\* the confirmation prompt, then succeeded = 0; failed = 0 and the loop
MainConfirm ==
    /\ pc = "confirm"
    /\ IF args.yes
       THEN /\ answer' = answer
            /\ pc' = "loop"
       ELSE \E a \in Answers :
            /\ answer' = Some(a)
            /\ pc' = IF Accepts(a.chars) THEN "loop" ELSE "done"
    /\ i' = 1
    /\ succeeded' = 0
    /\ failed' = 0
    /\ UNCHANGED <<funVars, like_result, enum_result, playlist_id, args,
                   credentials_exists, token_file, youtube, video_ids, summary,
                   rate_log, effects>>

\* one iteration of the rating loop
MainLikeNext ==
    /\ pc = "loop"
    /\ i <= Len(video_ids)
    /\ IF args.dry_run
       THEN UNCHANGED <<succeeded, failed, rate_log, effects>>
       ELSE \E r \in DefaultLikeResults :
            /\ rate_log' = Append(rate_log, video_ids[i])
            /\ succeeded' = Tally(r.ret, succeeded, failed)[1]
            /\ failed' = Tally(r.ret, succeeded, failed)[2]
            /\ effects' = [effects EXCEPT !.like_calls = @ + 1,
                                          !.rate_calls = @ + r.calls,
                                          !.net_calls = @ + r.calls]
    /\ i' = i + 1
    /\ UNCHANGED <<funVars, like_result, enum_result, playlist_id, args,
                   credentials_exists, token_file, youtube, video_ids, answer,
                   summary, pc>>

\* the loop is over: print the summary
MainSummary ==
    /\ pc = "loop"
    /\ i > Len(video_ids)
    /\ summary' = Some([attempted |-> Len(video_ids), succeeded |-> succeeded,
                        failed |-> failed])
    /\ pc' = "done"
    /\ UNCHANGED <<funVars, like_result, enum_result, playlist_id, args,
                   credentials_exists, token_file, youtube, video_ids, answer,
                   i, succeeded, failed, rate_log, effects>>

Next ==
    \/ MainResolve
    \/ MainDryRun
    \/ MainMissingSecrets
    \/ MainAuthenticate
    \/ MainGatherDryRun
    \/ MainGather
    \/ MainConfirm
    \/ MainLikeNext
    \/ MainSummary

Spec == InitMain /\ [][Next]_vars

(***************************************************************************)
(* Claims about main and get_authenticated_service (checked under Spec).   *)
(***************************************************************************)
Finished == pc \in {"done", "crashed"}

\* C4: in a run that is not a dry run, once the rating loop has started a
\* failed rating never ends the run: at every point of the loop like_video
\* has been called once for each of the first i-1 identifiers, in order,
\* and each call was tallied; a run that rated anything ends with the
\* summary, every identifier rated once and succeeded + failed equal to
\* the attempted count len(video_ids).
ThmC4 ==
    /\ pc = "loop" =>
        /\ rate_log = SubSeq(video_ids, 1, i - 1)
        /\ succeeded + failed = i - 1
    /\ (Finished /\ rate_log # <<>>) =>
        /\ pc = "done"
        /\ summary # None
        /\ rate_log = video_ids
        /\ summary[1].attempted = Len(video_ids)
        /\ summary[1].succeeded + summary[1].failed = summary[1].attempted

\* Two videos, one rating failed and one succeeded, summary printed.
WitC4 ==
    /\ pc = "done"
    /\ summary # None
    /\ video_ids = <<"v2", "v1">>
    /\ rate_log = <<"v2", "v1">>
    /\ summary[1].failed = 1
    /\ summary[1].succeeded = 1

EnumerationCompleted ==
    /\ enum_result # None
    /\ ~enum_result[1].raised
    /\ enum_result[1].ids # <<>>

\* C5: a rating call is issued only in a run without --dry-run, whose
\* client-secrets file exists, whose enumeration completed without error
\* with at least one identifier, and where --yes was given or the user
\* answered y; a run that ends on a missing credentials file, an
\* enumeration error, an empty playlist or a declined confirmation has
\* made no rating call.
ThmC5 ==
    /\ (effects.rate_calls > 0 \/ effects.like_calls > 0 \/ rate_log # <<>>) =>
        /\ ~args.dry_run
        /\ credentials_exists
        /\ EnumerationCompleted
        /\ args.yes \/ (answer # None /\ answer[1].is_y)
    /\ (enum_result # None /\ enum_result[1].raised) =>
        (effects.rate_calls = 0 /\ rate_log = <<>> /\ video_ids = <<>>)

\* Rating after the user typed an accepted answer at the prompt.
WitC5 ==
    /\ effects.rate_calls > 0
    /\ ~args.yes
    /\ answer # None
    /\ answer[1].is_y
    /\ answer[1].chars # <<"y">>

InvC7 ==
    /\ youtube # None => Valid(youtube[1])
    /\ effects.token_writes > 0 => (token_file # None /\ Valid(token_file[1]))

====
